---- MODULE Spec2Model ----
(***************************************************************************)
(* Nussinov RNA folding (nussinov.py): initialize, is_paired, fill,        *)
(* traceback, pairs_to_structure and the driver nussinov, as a state       *)
(* machine.  Python indices are kept 0-based: the base at Python position  *)
(* p of a sequence sq is sq[p + 1], a matrix is a function on the cells    *)
(* <<row, column>> with rows and columns in 0 .. N-1.                      *)
(***************************************************************************)
EXTENDS Integers, Sequences, FiniteSets

\* ------------------------------------------------------------------ bounds
MaxLen == 4
MaxDist == 3
MaxWeight == 2
TraceLen == 3
MaxScore == 1

\* ------------------------------------------------------------------ inputs
Bases == {"A", "U", "G", "C"}

\* "N" and "T" stand for symbols that are no RNA base
Symbols == Bases \cup {"N", "T"}

\* weight triples (w_AU, w_GC, w_GU) the runs are checked for: the one main()
\* uses, unit weights, and one with a zero weight
WeightChoices == {<<2, 3, 1>>, <<1, 1, 1>>, <<0, 2, 5>>}

AllWeights == {<<a, b, c>> : a \in 0..MaxWeight, b \in 0..MaxWeight, c \in 0..MaxWeight}

SeqsUpTo(S, n) == UNION {[1..len -> S] : len \in 0..n}

\* the "no value yet" marker np.nan; scores are never negative
NaN == -1

VARIABLES seq, weights, min_dist, m, loop_k, loop_i, stack, pairs, struct,
          ret, written, pc

vars == <<seq, weights, min_dist, m, loop_k, loop_i, stack, pairs, struct,
          ret, written, pc>>

\* ------------------------------------------------------------ pure helpers
Cells(N) == (0..(N-1)) \X (0..(N-1))

\* max() of a non-empty collection of integers
Max(S) == CHOOSE x \in S : \A y \in S : x >= y

\* matrix[r][c] with Python's negative indexing of the column
Cell(mat, N, r, c) == mat[<<r, IF c < 0 THEN c + N ELSE c>>]

\* initialize without the band below the diagonal
initialize_no_band(N, md) ==
  [c \in Cells(N) |-> IF c[1] = c[2] THEN 0 ELSE NaN]

initialize(N, md) ==
  [c \in Cells(N) |->
     IF c[1] = c[2] THEN 0
     ELSE IF c[1] = c[2] + 1 THEN 0
     ELSE NaN]

\* is_paired matching one order of each family only
is_paired_ordered(pair, w) ==
  IF pair = <<"A", "U">> THEN w[1]
  ELSE IF pair = <<"G", "C">> THEN w[2]
  ELSE IF pair = <<"G", "U">> THEN w[3]
  ELSE 0

is_paired(pair, w) ==
  IF pair \in {<<"A", "U">>, <<"U", "A">>} THEN w[1]
  ELSE IF pair \in {<<"G", "C">>, <<"C", "G">>} THEN w[2]
  ELSE IF pair \in {<<"G", "U">>, <<"U", "G">>} THEN w[3]
  ELSE 0

\* fill without the bifurcation term
RECURSIVE fill_no_bifurcation(_, _, _, _, _)
fill_no_bifurcation(i, j, sq, md, w) ==
  IF i >= j - md THEN 0
  ELSE Max({fill_no_bifurcation(i + 1, j - 1, sq, md, w)
              + is_paired(<<sq[i + 1], sq[j + 1]>>, w),
            fill_no_bifurcation(i + 1, j, sq, md, w),
            fill_no_bifurcation(i, j - 1, sq, md, w)})

\* fill with a base case that forgets min_dist
RECURSIVE fill_ignores_min_dist(_, _, _, _, _)
fill_ignores_min_dist(i, j, sq, md, w) ==
  IF i >= j THEN 0
  ELSE Max({fill_ignores_min_dist(i + 1, j - 1, sq, md, w)
              + is_paired(<<sq[i + 1], sq[j + 1]>>, w),
            fill_ignores_min_dist(i + 1, j, sq, md, w),
            fill_ignores_min_dist(i, j - 1, sq, md, w)}
           \cup {fill_ignores_min_dist(i, k, sq, md, w)
                   + fill_ignores_min_dist(k + 1, j, sq, md, w) : k \in i..(j - 1)})

RECURSIVE fill(_, _, _, _, _)
fill(i, j, sq, md, w) ==
  IF i >= j - md THEN 0
  ELSE LET score_paired == fill(i + 1, j - 1, sq, md, w) + is_paired(<<sq[i + 1], sq[j + 1]>>, w)
           score_i_not_paired == fill(i + 1, j, sq, md, w)
           score_j_not_paired == fill(i, j - 1, sq, md, w)
           score_all_bifurcation ==
             {fill(i, k, sq, md, w) + fill(k + 1, j, sq, md, w) : k \in i..(j - md - 1)}
           score_bifurcation == Max(score_all_bifurcation)
       IN Max({score_paired, score_i_not_paired, score_j_not_paired, score_bifurcation})

\* ---------------------------------------------------------------- traceback
\* the three spans a non-bifurcating branch pushes
\* a push that does not shrink the span
UnpairedLeftSame(i, j) == <<i, j>>
UnpairedLeft(i, j) == <<i + 1, j>>
UnpairedRight(i, j) == <<i, j - 1>>
\* a push that keeps the paired left end in the span
InnerKeepsLeft(i, j) == <<i, j - 1>>
Inner(i, j) == <<i + 1, j - 1>>

BranchA(mat, N, i, j) == Cell(mat, N, i + 1, j) = Cell(mat, N, i, j)
BranchB(mat, N, i, j) == Cell(mat, N, i, j - 1) = Cell(mat, N, i, j)
BranchC(mat, sq, w, i, j) ==
  Cell(mat, Len(sq), i + 1, j - 1) + is_paired(<<sq[i + 1], sq[j + 1]>>, w)
    = Cell(mat, Len(sq), i, j)

\* the test of the bifurcation scan at k
BifTest(mat, N, i, j, k) ==
  Cell(mat, N, i, k - 1) + Cell(mat, N, k + 1, j - 1) + 1 = Cell(mat, N, i, j)

\* the k at which `for k in range(i, j)` breaks, when there is one
BifMatches(mat, N, i, j) == {k \in i..(j - 1) : BifTest(mat, N, i, j, k)}
BifFound(mat, N, i, j) == BifMatches(mat, N, i, j) # {}
BifK(mat, N, i, j) == CHOOSE k \in BifMatches(mat, N, i, j) :
                        \A k2 \in BifMatches(mat, N, i, j) : k <= k2

\* a popped span with i < j for which none of the four branches matches
NoBranch(mat, sq, w, i, j) ==
  /\ i < j
  /\ ~BranchA(mat, Len(sq), i, j)
  /\ ~BranchB(mat, Len(sq), i, j)
  /\ ~BranchC(mat, sq, w, i, j)
  /\ ~BifFound(mat, Len(sq), i, j)

\* the cells one iteration on the span (i, j) reads, in the if/elif order
\* (column -1 is the last column)
CellsRead(mat, sq, w, i, j) ==
  LET N == Len(sq)
      scanned == IF BifFound(mat, N, i, j) THEN i..BifK(mat, N, i, j) ELSE i..(j - 1)
  IN IF i >= j THEN {}
     ELSE {<<i + 1, j>>, <<i, j>>} \cup
       IF BranchA(mat, N, i, j) THEN {}
       ELSE {<<i, j - 1>>} \cup
         IF BranchB(mat, N, i, j) THEN {}
         ELSE {<<i + 1, j - 1>>} \cup
           IF BranchC(mat, sq, w, i, j) THEN {}
           ELSE UNION {{<<i, IF k - 1 < 0 THEN k - 1 + N ELSE k - 1>>, <<k + 1, j - 1>>} :
                         k \in scanned}

\* int(nan) raises ValueError
RaisesValueError(mat, sq, w, i, j) ==
  \E c \in CellsRead(mat, sq, w, i, j) : mat[c] = NaN

\* the spans one iteration pushes, bottom first
Pushed(mat, sq, w, i, j) ==
  LET N == Len(sq) IN
  IF i >= j THEN <<>>
  ELSE IF BranchA(mat, N, i, j) THEN <<UnpairedLeft(i, j)>>
  ELSE IF BranchB(mat, N, i, j) THEN <<UnpairedRight(i, j)>>
  ELSE IF BranchC(mat, sq, w, i, j) THEN <<Inner(i, j)>>
  ELSE IF BifFound(mat, N, i, j)
       THEN <<<<BifK(mat, N, i, j) + 1, j>>, <<i, BifK(mat, N, i, j)>>>>
  ELSE <<>>

\* the pair one iteration records, if any
Recorded(mat, sq, w, i, j) ==
  IF /\ i < j
     /\ ~BranchA(mat, Len(sq), i, j)
     /\ ~BranchB(mat, Len(sq), i, j)
     /\ BranchC(mat, sq, w, i, j)
  THEN <<<<i, j>>>> ELSE <<>>

\* -------------------------------------------------------- pairs_to_structure
RECURSIVE SetPairs(_, _)
SetPairs(dots, ps) ==
  IF ps = <<>> THEN dots
  ELSE SetPairs([[dots EXCEPT ![ps[1][1] + 1] = "("] EXCEPT ![ps[1][2] + 1] = ")"],
                Tail(ps))

\* the brackets the wrong way round
pairs_to_structure_swapped(ps, sq) ==
  SetPairs([p \in 1..Len(sq) |-> "."], [x \in 1..Len(ps) |-> <<ps[x][2], ps[x][1]>>])

pairs_to_structure(ps, sq) == SetPairs([p \in 1..Len(sq) |-> "."], ps)

\* ------------------------------------------------------------------ nussinov
\* the cell the loop body writes in iteration (k, i): j = i + k
\* the loop counters in each other's role: row k, column k + i
FillTargetByRow(k, i) == <<k, k + i>>
FillTarget(k, i) == <<i, i + k>>

\* nussinov(seq, weights, min_dist, seq_id) has been called
Init ==
  /\ seq \in SeqsUpTo(Bases, MaxLen)
  /\ weights \in WeightChoices
  /\ min_dist \in 0..MaxDist
  /\ m = <<>>
  /\ loop_k = 0
  /\ loop_i = 0
  /\ stack = <<>>
  /\ pairs = <<>>
  /\ struct = <<>>
  /\ ret = 0
  /\ written = <<>>
  /\ pc = "start"

\* m = initialize(length, min_dist)
Initialize ==
  /\ pc = "start"
  /\ m' = initialize(Len(seq), min_dist)
  /\ loop_k' = 0
  /\ loop_i' = 0
  /\ pc' = "fill"
  /\ UNCHANGED <<seq, weights, min_dist, stack, pairs, struct, ret, written>>

\* one iteration of the inner loop: m[i][j] = fill(i, j, seq, min_dist, weights)
FillCell ==
  /\ pc = "fill"
  /\ loop_k < Len(seq)
  /\ LET i == FillTarget(loop_k, loop_i)[1]
         j == FillTarget(loop_k, loop_i)[2]
     IN /\ m' = [m EXCEPT ![<<i, j>>] = fill(i, j, seq, min_dist, weights)]
        /\ written' = Append(written, <<i, j>>)
  /\ IF loop_i + 1 < Len(seq) - loop_k
       THEN /\ loop_i' = loop_i + 1
            /\ loop_k' = loop_k
       ELSE /\ loop_i' = 0
            /\ loop_k' = loop_k + 1
  /\ UNCHANGED <<seq, weights, min_dist, stack, pairs, struct, ret, pc>>

\* the fill loop has ended; traceback is entered: stack = [(0, len(seq)-1)]
TracebackCall ==
  /\ pc = "fill"
  /\ loop_k >= Len(seq)
  /\ stack' = <<<<0, Len(seq) - 1>>>>
  /\ pairs' = <<>>
  /\ pc' = "traceback"
  /\ UNCHANGED <<seq, weights, min_dist, m, loop_k, loop_i, struct, ret, written>>

\* one iteration of `while(stack)`
TracebackIter ==
  /\ pc = "traceback"
  /\ stack # <<>>
  /\ LET top == stack[Len(stack)]
         rest == SubSeq(stack, 1, Len(stack) - 1)
         i == top[1]
         j == top[2]
     IN IF RaisesValueError(m, seq, weights, i, j)
          THEN /\ pc' = "error"
               /\ stack' = rest
               /\ pairs' = pairs
          ELSE /\ pc' = "traceback"
               /\ stack' = rest \o Pushed(m, seq, weights, i, j)
               /\ pairs' = pairs \o Recorded(m, seq, weights, i, j)
  /\ UNCHANGED <<seq, weights, min_dist, m, loop_k, loop_i, struct, ret, written>>

\* the stack is empty: return pairs
TracebackReturn ==
  /\ pc = "traceback"
  /\ stack = <<>>
  /\ pc' = "structure"
  /\ UNCHANGED <<seq, weights, min_dist, m, loop_k, loop_i, stack, pairs, struct, ret, written>>

\* struct = pairs_to_structure(pairs, seq), and the record is written out
PairsToStructure ==
  /\ pc = "structure"
  /\ struct' = pairs_to_structure(pairs, seq)
  /\ pc' = "done"
  /\ UNCHANGED <<seq, weights, min_dist, m, loop_k, loop_i, stack, pairs, ret, written>>

Next ==
  \/ Initialize
  \/ FillCell
  \/ TracebackCall
  \/ TracebackIter
  \/ TracebackReturn
  \/ PairsToStructure

Spec == Init /\ [][Next]_vars

\* ------------------------------------------------- is_paired called directly
\* is_paired((b1, b2), weights) is about to be called; seq holds b1, b2
InitPair ==
  /\ seq \in [1..2 -> Symbols]
  /\ weights \in AllWeights
  /\ min_dist = 0
  /\ m = <<>>
  /\ loop_k = 0
  /\ loop_i = 0
  /\ stack = <<>>
  /\ pairs = <<>>
  /\ struct = <<>>
  /\ ret = 0
  /\ written = <<>>
  /\ pc = "is_paired"

IsPairedCall ==
  /\ pc = "is_paired"
  /\ ret' = is_paired(<<seq[1], seq[2]>>, weights)
  /\ pc' = "returned"
  /\ UNCHANGED <<seq, weights, min_dist, m, loop_k, loop_i, stack, pairs, struct, written>>

NextPair == IsPairedCall

SpecPair == InitPair /\ [][NextPair]_vars

\* ------------------------------------- traceback called on any numeric matrix
\* traceback(matrix, seq, weights) has been entered with an N x N matrix of
\* scores that need not come from the fill loop
InitAny ==
  /\ seq \in SeqsUpTo(Bases, TraceLen)
  /\ weights \in WeightChoices
  /\ min_dist = 0
  /\ m \in [Cells(Len(seq)) -> 0..MaxScore]
  /\ loop_k = 0
  /\ loop_i = 0
  /\ stack = <<<<0, Len(seq) - 1>>>>
  /\ pairs = <<>>
  /\ struct = <<>>
  /\ ret = 0
  /\ written = <<>>
  /\ pc = "traceback"

NextAny ==
  \/ TracebackIter
  \/ TracebackReturn

\* the single thread of the program keeps running until traceback returns
SpecAny == InitAny /\ [][NextAny]_vars /\ WF_vars(NextAny)

\* =================================================================== claims
N == Len(seq)
\* the fill loop has ended
Filled == \/ pc \in {"traceback", "structure", "done", "error"}
          \/ pc = "fill" /\ loop_k >= N
Returned == pc \in {"structure", "done"}
UpperCells == {c \in Cells(N) : c[1] <= c[2]}

RECURSIVE SumOver(_, _, _)
SumOver(S, sq, w) ==
  IF S = {} THEN 0
  ELSE LET pr == CHOOSE x \in S : TRUE
       IN is_paired(<<sq[pr[1] + 1], sq[pr[2] + 1]>>, w) + SumOver(S \ {pr}, sq, w)

\* every position in at most one pair, no two pairs cross
NonCrossing(S) ==
  \A a \in S : \A b \in S :
    a # b => /\ {a[1], a[2]} \cap {b[1], b[2]} = {}
             /\ ~(a[1] < b[1] /\ b[1] < a[2] /\ a[2] < b[2])

AllowedPairs(i, j, md) == {pr \in (i..j) \X (i..j) : pr[2] - pr[1] > md}

Pairings(i, j, md) == {S \in SUBSET AllowedPairs(i, j, md) : NonCrossing(S)}

BestScore(i, j, sq, md, w) == Max({SumOver(S, sq, w) : S \in Pairings(i, j, md)})

PairSet == {pairs[x] : x \in 1..Len(pairs)}

\* C1: once the fill loop has ended, every cell (i, j) with i <= j holds the
\* maximum, over all non-crossing sets of pairs inside i..j whose ends are
\* more than min_dist apart, of the summed pair scores.
C1_FillIsMaximum ==
  Filled => \A c \in UpperCells : m[c] = BestScore(c[1], c[2], seq, min_dist, weights)

\* a filled matrix whose top cell is reached only by two side-by-side pairs
C1_Witness ==
  /\ pc = "traceback"
  /\ N = 4
  /\ m[<<0, 3>>] > m[<<1, 3>>]
  /\ m[<<0, 3>>] > m[<<0, 2>>]
  /\ m[<<0, 3>>] > m[<<1, 2>>] + is_paired(<<seq[1], seq[4]>>, weights)

\* C2: the Pair List traceback returns is an optimal pairing: its summed pair
\* scores equal score(0, N-1).
C2_TracebackOptimal ==
  (Returned /\ N >= 1) => SumOver(PairSet, seq, weights) = m[<<0, N - 1>>]

\* C3: in the returned Pair List no index occurs in two pairs, and the ends
\* of every pair are more than min_dist apart.
C3_PairsValid ==
  Returned =>
    /\ \A x \in 1..Len(pairs) : \A y \in 1..Len(pairs) :
         x # y => {pairs[x][1], pairs[x][2]} \cap {pairs[y][1], pairs[y][2]} = {}
    /\ \A x \in 1..Len(pairs) : pairs[x][2] - pairs[x][1] > min_dist

C3_Witness == pc = "done" /\ Len(pairs) >= 2

Count(str, ch) == Cardinality({p \in 1..Len(str) : str[p] = ch})

\* C4: the structure has the length of the sequence, consists of '.', '('
\* and ')', has '(' exactly at the smaller index of a pair and ')' exactly at
\* the larger, and as many '(' as ')' as pairs.
C4_StructureShape ==
  pc = "done" =>
    /\ Len(struct) = N
    /\ \A p \in 1..Len(struct) : struct[p] \in {".", "(", ")"}
    /\ \A p \in 0..(N - 1) :
         /\ struct[p + 1] = "(" <=> \E pr \in PairSet : pr[1] = p
         /\ struct[p + 1] = ")" <=> \E pr \in PairSet : pr[2] = p
    /\ Count(struct, "(") = Len(pairs)
    /\ Count(struct, ")") = Len(pairs)

C4_Witness == pc = "done" /\ Len(pairs) >= 1 /\ Count(struct, ".") >= 1

Degenerate == N = 0 \/ min_dist >= N

\* C5: on the empty sequence, or with min_dist >= N, nothing fails: the
\* filled matrix is 0 on and above the diagonal, traceback never records a
\* pair, and the structure is N dots.
C5_Degenerate ==
  Degenerate =>
    /\ pc # "error"
    /\ Filled => \A c \in UpperCells : m[c] = 0
    /\ pairs = <<>>
    /\ pc = "done" => struct = [p \in 1..N |-> "."]

C5_Witness == Degenerate /\ pc = "done" /\ N = MaxDist /\ min_dist = MaxDist

C5_WitnessEmpty == Degenerate /\ pc = "done" /\ N = 0

Top == stack[Len(stack)]
Popping == pc = "traceback" /\ stack # <<>>
SpanLen(c) == c[2] - c[1]

\* C6: a popped span with i < j that matches no branch ends the traceback in
\* an error; it is never dropped with the traceback going on.
C6_NoBranchIsFatal ==
  [][(Popping /\ NoBranch(m, seq, weights, Top[1], Top[2])) => pc' = "error"]_vars

Expected(b1, b2, w) ==
  IF {b1, b2} = {"A", "U"} THEN w[1]
  ELSE IF {b1, b2} = {"G", "C"} THEN w[2]
  ELSE IF {b1, b2} = {"G", "U"} THEN w[3]
  ELSE 0

\* C7: is_paired returns w_AU, w_GC, w_GU for the three pair families in
\* either order and 0 for every other pair of symbols, and returns the same
\* for the two orders of its characters.
C7_PairScore ==
  pc = "returned" =>
    /\ ret = Expected(seq[1], seq[2], weights)
    /\ ret = is_paired(<<seq[2], seq[1]>>, weights)

C7_Witness ==
  /\ pc = "returned"
  /\ seq = <<"U", "G">>
  /\ weights = <<0, 1, MaxWeight>>
  /\ ret = MaxWeight

C8_Order ==
  /\ \A x \in 1..Len(written) : written[x][1] <= written[x][2]
  /\ \A x \in 1..Len(written) : \A y \in 1..Len(written) :
       x < y => /\ SpanLen(written[x]) <= SpanLen(written[y])
                /\ written[x] # written[y]
  /\ Filled => {written[x] : x \in 1..Len(written)} = UpperCells

\* C8: the fill loop writes the cells with i <= j in non-decreasing order of
\* j - i, each exactly once, and once the loop has ended the matrix is never
\* written again.
C8_FillOnce ==
  /\ []C8_Order
  /\ [][Filled => (m' = m /\ written' = written)]_vars

C8_Witness == pc = "done" /\ N = MaxLen /\ 2 * Len(written) = N * (N + 1)

\* C9: no read of the unset marker: every cell an iteration of traceback
\* reads is a cell of the matrix holding a number, and traceback never fails.
C9_NoSentinelRead ==
  /\ pc # "error"
  /\ Popping =>
       \A c \in CellsRead(m, seq, weights, Top[1], Top[2]) :
         c \in DOMAIN m /\ m[c] # NaN

\* the bifurcation scan reads a cell below the diagonal
C9_Witness ==
  /\ Popping
  /\ Top[1] < Top[2]
  /\ ~BranchA(m, N, Top[1], Top[2])
  /\ ~BranchB(m, N, Top[1], Top[2])
  /\ ~BranchC(m, seq, weights, Top[1], Top[2])
  /\ \E c \in CellsRead(m, seq, weights, Top[1], Top[2]) : c[1] > c[2]

\* C10: on any matrix of numbers every span traceback pushes is strictly
\* shorter than the span it popped, and traceback returns.
C10_Terminates ==
  /\ [][Popping => \A x \in Len(stack)..Len(stack') :
                     SpanLen(stack'[x]) < SpanLen(Top)]_vars
  /\ <>(pc = "structure")

\* traceback has returned a pair from a matrix the fill loop cannot build
C10_Witness ==
  /\ pc = "structure"
  /\ N = TraceLen
  /\ m[<<0, 0>>] = MaxScore
  /\ m[<<N - 1, 0>>] = MaxScore
  /\ Len(pairs) >= 1

====
